---- MODULE Spec2Model ----
(***************************************************************************)
(* Weighted lottery selection (src/src/utils/lottery.ts) and the timed     *)
(* reveal sequence that consumes it (src/src/components/NameScrolling.tsx).*)
(*                                                                         *)
(* Arrays are 1-based here and 0-based in the source: source index k is    *)
(* position k + 1 of a sequence.  Math.random() * totalWeight is a real in *)
(* [0, totalWeight); it is modelled as an integer number of 1/Scale-th     *)
(* tickets, so that both the cumulative-weight boundaries and points       *)
(* strictly inside every sub-interval are drawn.                           *)
(***************************************************************************)
EXTENDS Integers, Sequences, FiniteSets

\* ---------------------------------------------------------------- bounds
MaxGuides == 3      \* longest candidate list handed to the selector
MaxTickets == 2     \* largest totalTickets of a candidate
MaxCount == 3       \* largest requested winner count
MaxCalls == 2       \* invocations of the selector on the same input list
MaxEffectRuns == 2  \* reveal sequences started in one run of the component
MaxShown == 2       \* longest candidate list handed to the component
Scale == 2          \* random draws are multiples of 1/Scale ticket

VARIABLES
  given,            \* the caller's list as it was before the first call
  arrays,           \* the heap: array reference -> contents
  availableGuides,  \* lottery.ts:4, the reference held by the local
  winners,          \* lottery.ts:5
  i,                \* lottery.ts:7, the round counter
  count,            \* the count argument of the running call
  pc,               \* "idle" | "loop" | "returned"
  calls,            \* number of invocations started so far
  last,             \* the most recent round: pool before it, draw, index
  \* NameScrolling: props
  isScrolling, guides, winnerCount, prizeCategory,
  \* NameScrolling: useState cells, lines 21-25
  phase, countdown, currentWinnerIndex, selectedWinners, currentWinner,
  timers,           \* pending setInterval / setTimeout callbacks with their closures
  effectRuns,       \* reveal sequences started so far
  completions       \* arguments of the onComplete calls of the current sequence

selVars == <<given, arrays, availableGuides, winners, i, count, pc, calls, last>>

uiVars == <<isScrolling, guides, winnerCount, prizeCategory, phase, countdown,
            currentWinnerIndex, selectedWinners, currentWinner, timers,
            effectRuns, completions>>

\* ------------------------------------------------------------ data model
Min(a, b) == IF a < b THEN a ELSE b

Guide(n, t) == [id |-> n, totalTickets |-> t]

\* Candidate lists with unique identities: the k-th candidate has id k.
GuideLists ==
  UNION { { [k \in 1..n |-> Guide(k, t[k])] : t \in [1..n -> 0..MaxTickets] }
          : n \in 0..MaxGuides }

InputRef == 0       \* the caller's array
LocalRef == 1       \* the array allocated by the running call
Refs == {InputRef, LocalRef}

\* ------------------------------------------------- lottery.ts, the steps
\* variant: const availableGuides = guides (no copy)
AliasRef == InputRef

\* const availableGuides = [...guides]: a fresh array
SpreadRef == LocalRef

\* variant: i <= count
LoopContinuesOffByOne(n, c, len) == n <= c /\ len > 0

\* for (let i = 0; i < count && availableGuides.length > 0; i++)
LoopContinues(n, c, len) == n < c /\ len > 0

RECURSIVE SumTickets(_, _)
SumTickets(pool, k) ==
  IF k = 0 THEN 0 ELSE SumTickets(pool, k - 1) + pool[k].totalTickets

\* availableGuides.reduce((sum, guide) => sum + guide.totalTickets, 0)
TotalWeight(pool) == SumTickets(pool, Len(pool))

\* Math.random() * totalWeight, in 1/Scale-th tickets: [0, totalWeight),
\* and 0 when totalWeight is 0
RandomDraws(totalWeight) ==
  IF totalWeight = 0 THEN {0} ELSE 0..(Scale * totalWeight - 1)

\* the inner for loop from index j on; 1 is the default selectedIndex = 0
RECURSIVE ScanFrom(_, _, _)
ScanFrom(pool, j, random) ==
  IF j > Len(pool) THEN 1
  ELSE LET rest == random - Scale * pool[j].totalTickets
       IN  IF rest <= 0 THEN j ELSE ScanFrom(pool, j + 1, rest)

\* variant: the scan walks the pool from its last candidate
RECURSIVE ScanBackFrom(_, _, _)
ScanBackFrom(pool, j, random) ==
  IF j < 1 THEN 1
  ELSE LET rest == random - Scale * pool[j].totalTickets
       IN  IF rest <= 0 THEN j ELSE ScanBackFrom(pool, j - 1, rest)

SelectedIndexFromEnd(pool, random) == ScanBackFrom(pool, Len(pool), random)

\* let selectedIndex = 0; for (let j = 0; j < availableGuides.length; j++) ...
SelectedIndex(pool, random) == ScanFrom(pool, 1, random)

\* variant: slice in place of splice, the pool keeps the winner
SliceNotSplice(arr, idx) == arr

\* variant: the last candidate is moved into the winner's place
SwapAndPop(arr, idx) ==
  [k \in 1..(Len(arr) - 1) |-> IF k = idx THEN arr[Len(arr)] ELSE arr[k]]

RemoveAt(arr, idx) ==
  [k \in 1..(Len(arr) - 1) |-> IF k < idx THEN arr[k] ELSE arr[k + 1]]

\* what availableGuides.splice(selectedIndex, 1) leaves in the array
Splice(arr, idx) == RemoveAt(arr, idx)

NoRound == [pool |-> <<>>, r |-> 0, idx |-> 0]

SelInit ==
  /\ given \in GuideLists
  /\ arrays = [ref \in Refs |-> IF ref = InputRef THEN given ELSE <<>>]
  /\ availableGuides = LocalRef
  /\ winners = <<>>
  /\ i = 0
  /\ count = 0
  /\ pc = "idle"
  /\ calls = 0
  /\ last = NoRound

\* weightedRandomSelection(guides, c) is entered: lines 3-5
Invoke(c) ==
  /\ pc \in {"idle", "returned"}
  /\ calls < MaxCalls
  /\ calls' = calls + 1
  /\ count' = c
  /\ availableGuides' = SpreadRef
  /\ arrays' = [arrays EXCEPT ![SpreadRef] = arrays[InputRef]]
  /\ winners' = <<>>
  /\ i' = 0
  /\ pc' = "loop"
  /\ last' = NoRound
  /\ UNCHANGED <<given, uiVars>>

\* one iteration of the outer loop: lines 7-22
Round ==
  /\ pc = "loop"
  /\ LoopContinues(i, count, Len(arrays[availableGuides]))
  /\ \E random \in RandomDraws(TotalWeight(arrays[availableGuides])) :
       LET pool == arrays[availableGuides]
           selectedIndex == SelectedIndex(pool, random)
       IN  /\ winners' = Append(winners, pool[selectedIndex])
           /\ arrays' = [arrays EXCEPT ![availableGuides] = Splice(pool, selectedIndex)]
           /\ last' = [pool |-> pool, r |-> random, idx |-> selectedIndex]
  /\ i' = i + 1
  /\ UNCHANGED <<given, availableGuides, count, pc, calls, uiVars>>

\* the loop condition fails and winners is returned: lines 7, 24
Return ==
  /\ pc = "loop"
  /\ ~LoopContinues(i, count, Len(arrays[availableGuides]))
  /\ pc' = "returned"
  /\ UNCHANGED <<given, arrays, availableGuides, winners, i, count, calls, last, uiVars>>

vars == <<selVars, uiVars>>

\* ------------------------------------------------ NameScrolling.tsx
\* null and undefined (both falsy in the render conditions)
NoGuide == Guide(0, 0)

\* values of the prizeCategory prop (its id, or null)
PrizeCategories == {"null", "iron-box"}

\* values of the guides prop: one ticket each
ShownLists ==
  {g \in GuideLists : Len(g) <= MaxShown /\ \A k \in 1..Len(g) : g[k].totalTickets = 1}

\* getCountdownDuration(category), lines 28-39
GetCountdownDuration(category) ==
  CASE category = "null" -> 15
    [] category = "iron-box" -> 7
    [] category = "soundbars" -> 10
    [] category = "washing-machine" -> 15
    [] category = "tablets" -> 20
    [] category = "refrigerator" -> 60
    [] OTHER -> 15

\* the lists the effect's inline selection loop can produce, lines 45-63
RECURSIVE Outcomes(_, _, _)
Outcomes(pool, n, c) ==
  IF ~LoopContinues(n, c, Len(pool)) THEN {<<>>}
  ELSE UNION { LET selectedIndex == SelectedIndex(pool, random)
               IN  { <<pool[selectedIndex]>> \o rest :
                       rest \in Outcomes(Splice(pool, selectedIndex), n + 1, c) }
               : random \in RandomDraws(TotalWeight(pool)) }

\* arr[k] of the source (0-based), undefined when out of range
At(arr, k) == IF k + 1 \in 1..Len(arr) THEN arr[k + 1] ELSE NoGuide

\* setInterval(..., 1000) of startCountdownForWinner, with what its closure
\* holds: timeLeft, winnerIndex and the selectedWinners of the render whose
\* startCountdownForWinner was called
IntervalTimer(duration, winnerIndex, closed) ==
  [kind |-> "interval", timeLeft |-> duration, winnerIndex |-> winnerIndex,
   selectedWinners |-> closed]

RevealTimer(t) == [t EXCEPT !.kind = "reveal"]
CompleteTimer(t) == [t EXCEPT !.kind = "complete"]

Without(seq, k) == [j \in 1..(Len(seq) - 1) |-> IF j < k THEN seq[j] ELSE seq[j + 1]]

UIInit ==
  /\ isScrolling = FALSE
  /\ guides = <<>>
  /\ winnerCount = 1
  /\ prizeCategory = "null"
  /\ phase = "countdown"
  /\ countdown = 15
  /\ currentWinnerIndex = 0
  /\ selectedWinners = <<>>
  /\ currentWinner = NoGuide
  /\ timers = <<>>
  /\ effectRuns = 0
  /\ completions = <<>>

\* the useEffect body, lines 41-72, run after a render with the given props;
\* startCountdownForWinner(0) is the function of that render, so its closure
\* holds that render's selectedWinners (the state before setSelectedWinners)
RunEffect(scrolling, g, n, category) ==
  IF ~scrolling \/ Len(g) = 0
  THEN UNCHANGED <<phase, countdown, currentWinnerIndex, selectedWinners,
                   currentWinner, timers, effectRuns, completions>>
  ELSE /\ effectRuns < MaxEffectRuns
       /\ effectRuns' = effectRuns + 1
       /\ \E w \in Outcomes(g, 0, n) : selectedWinners' = w
       /\ currentWinnerIndex' = 0
       /\ phase' = "countdown"
       /\ countdown' = GetCountdownDuration(category)
       /\ timers' = Append(timers,
            IntervalTimer(GetCountdownDuration(category), 0, selectedWinners))
       /\ completions' = <<>>
       /\ UNCHANGED currentWinner

\* the parent renders the component with isScrolling true (mount included)
StartScrolling(g, n, category) ==
  /\ ~isScrolling
  /\ isScrolling' = TRUE
  /\ guides' = g
  /\ winnerCount' = n
  /\ prizeCategory' = category
  /\ RunEffect(TRUE, g, n, category)
  /\ UNCHANGED selVars

\* the parent re-renders with a changed dependency while scrolling
\* (a new guides array, onComplete function, winnerCount or prizeCategory)
DepsChange(g, n, category) ==
  /\ isScrolling
  /\ guides' = g
  /\ winnerCount' = n
  /\ prizeCategory' = category
  /\ UNCHANGED isScrolling
  /\ RunEffect(TRUE, g, n, category)
  /\ UNCHANGED selVars

\* the parent renders with isScrolling false: the effect returns at line 42
StopScrolling ==
  /\ isScrolling
  /\ isScrolling' = FALSE
  /\ UNCHANGED <<guides, winnerCount, prizeCategory>>
  /\ RunEffect(FALSE, guides, winnerCount, prizeCategory)
  /\ UNCHANGED selVars

\* one firing of a countdown interval, lines 82-105
Tick(k) ==
  /\ timers[k].kind = "interval"
  /\ LET t == timers[k]
         timeLeft == t.timeLeft - 1
     IN  /\ countdown' = timeLeft
         /\ IF timeLeft <= 0
            THEN /\ phase' = "revealing"
                 /\ currentWinner' = At(t.selectedWinners, t.winnerIndex)
                 /\ timers' = Append(Without(timers, k), RevealTimer(t))
            ELSE /\ timers' = [timers EXCEPT ![k].timeLeft = timeLeft]
                 /\ UNCHANGED <<phase, currentWinner>>
  /\ UNCHANGED <<isScrolling, guides, winnerCount, prizeCategory,
                 currentWinnerIndex, selectedWinners, effectRuns, completions,
                 selVars>>

\* the 3000 ms timeout after a reveal, lines 92-103
RevealTimeout(k) ==
  /\ timers[k].kind = "reveal"
  /\ LET t == timers[k]
     IN  IF t.winnerIndex = Len(t.selectedWinners) - 1
         THEN /\ phase' = "complete"
              /\ timers' = Append(Without(timers, k), CompleteTimer(t))
         ELSE /\ phase' = "waiting"
              /\ timers' = Without(timers, k)
  /\ UNCHANGED <<isScrolling, guides, winnerCount, prizeCategory, countdown,
                 currentWinnerIndex, selectedWinners, currentWinner,
                 effectRuns, completions, selVars>>

\* the 2000 ms timeout that calls onComplete(selectedWinners), lines 96-98
CompleteTimeout(k) ==
  /\ timers[k].kind = "complete"
  /\ completions' = Append(completions, timers[k].selectedWinners)
  /\ timers' = Without(timers, k)
  /\ UNCHANGED <<isScrolling, guides, winnerCount, prizeCategory, phase,
                 countdown, currentWinnerIndex, selectedWinners, currentWinner,
                 effectRuns, selVars>>

\* the Next Winner button is rendered: lines 115, 255, 325
NextShown == isScrolling /\ phase = "waiting" /\ currentWinner # NoGuide

\* handleNextWinner of the latest render, lines 108-113, and the
\* startCountdownForWinner(nextIndex) it calls, lines 74-82
NextClick ==
  /\ NextShown
  /\ LET nextIndex == currentWinnerIndex + 1
     IN  IF nextIndex < Len(selectedWinners)
         THEN /\ currentWinnerIndex' = nextIndex
              /\ phase' = "countdown"
              /\ countdown' = GetCountdownDuration(prizeCategory)
              /\ timers' = Append(timers,
                   IntervalTimer(GetCountdownDuration(prizeCategory), nextIndex,
                                 selectedWinners))
         ELSE UNCHANGED <<currentWinnerIndex, phase, countdown, timers>>
  /\ UNCHANGED <<isScrolling, guides, winnerCount, prizeCategory,
                 selectedWinners, currentWinner, effectRuns, completions,
                 selVars>>

\* ------------------------------------------------------- specifications
\* the selector alone, called repeatedly on one input list
Init == SelInit /\ UIInit

Next ==
  \/ \E c \in 0..MaxCount : Invoke(c)
  \/ Round
  \/ Return

Spec == Init /\ [][Next]_vars

\* the component alone
SelIdle ==
  /\ given = <<>>
  /\ arrays = [ref \in Refs |-> <<>>]
  /\ availableGuides = LocalRef
  /\ winners = <<>>
  /\ i = 0
  /\ count = 0
  /\ pc = "idle"
  /\ calls = 0
  /\ last = NoRound

InitUI == SelIdle /\ UIInit

NextUI ==
  \/ \E g \in ShownLists, n \in 1..MaxShown, category \in PrizeCategories :
       StartScrolling(g, n, category)
  \/ \E g \in ShownLists, n \in 1..MaxShown, category \in PrizeCategories :
       DepsChange(g, n, category)
  \/ StopScrolling
  \/ \E k \in 1..Len(timers) : Tick(k)
  \/ \E k \in 1..Len(timers) : RevealTimeout(k)
  \/ \E k \in 1..Len(timers) : CompleteTimeout(k)
  \/ NextClick

SpecUI == InitUI /\ [][NextUI]_vars

\* ================================================================ claims
Pool == arrays[availableGuides]

RoundDone == last.pool # <<>>

\* ---- checked under Spec

\* C1: a call returns a list of exactly min(count, number of candidates)
\* winners, for every list, count and sequence of draws; until then the loop
\* has run at most that many rounds, can always take its next step, and
\* every selected index is inside the pool.
C1_LengthIsMin ==
  /\ pc = "returned" => Len(winners) = Min(count, Len(given))
  /\ pc = "loop" =>
       /\ i = Len(winners)
       /\ i <= Min(count, Len(given))
       /\ ENABLED (Round \/ Return)
  /\ RoundDone => last.idx \in 1..Len(last.pool)

\* a single candidate and count 3: the result is exactly that candidate
C1_Witness ==
  /\ pc = "returned"
  /\ Len(given) = 1
  /\ count = MaxCount
  /\ count > 1
  /\ winners = <<given[1]>>

\* C2: no candidate appears twice among the winners and every winner is an
\* element of the input list.
C2_DistinctFromInput ==
  /\ \A a, b \in 1..Len(winners) : a # b => winners[a] # winners[b]
  /\ \A a \in 1..Len(winners) : \E k \in 1..Len(given) : winners[a] = given[k]

C2_Witness ==
  /\ pc = "returned"
  /\ Len(winners) = MaxGuides
  /\ Len(winners) > 1

\* C3: in a round whose pool holds a candidate with positive weight, the
\* selected candidate never has weight 0.
C3_ZeroWeightNeverSelected ==
  (RoundDone /\ TotalWeight(last.pool) > 0) =>
    last.pool[last.idx].totalTickets > 0

\* the reference of C4: candidate j owns [before j, before j + weight j)
InSubInterval(pool, j, r) ==
  /\ Scale * SumTickets(pool, j - 1) <= r
  /\ r < Scale * SumTickets(pool, j)

\* C4: the selected candidate is the one whose half-open sub-interval of
\* [0, totalWeight) contains the draw.
C4_ScanLocatesInterval ==
  (RoundDone /\ TotalWeight(last.pool) > 0) =>
    InSubInterval(last.pool, last.idx, last.r)

\* C5: in a round whose pool has total weight 0 the first candidate of the
\* pool wins; a call with count 1 on an all-zero list returns its first
\* candidate.
C5_ZeroPoolPicksFirst ==
  /\ (RoundDone /\ TotalWeight(last.pool) = 0) =>
       /\ last.idx = 1
       /\ winners[Len(winners)] = last.pool[1]
  /\ (pc = "returned" /\ count = 1 /\ Len(given) >= 1 /\ TotalWeight(given) = 0) =>
       winners = <<given[1]>>

C5_Witness ==
  /\ pc = "returned"
  /\ count = 1
  /\ Len(given) = MaxGuides
  /\ Len(given) > 1
  /\ TotalWeight(given) = 0
  /\ winners = <<given[1]>>

\* C6: the caller's list is never changed by a call, so every call, the
\* first and the later ones, starts from a copy of the same list.
C6_InputUntouched ==
  /\ arrays[InputRef] = given
  /\ (pc = "loop" /\ i = 0) => Pool = given

\* a later call on the same list has removed candidates from its pool
C6_Witness ==
  /\ calls > 1
  /\ pc = "loop"
  /\ i > 1
  /\ Len(Pool) >= 1

\* C7: a round removes exactly the winner from the pool, keeps the others
\* in order and appends the winner to the winner list; the winner list
\* followed by the pool holds every input candidate exactly once, and the
\* pool has lost one candidate per completed round.
C7_RoundMovesWinner ==
  /\ pc # "idle" =>
       /\ Len(Pool) = Len(given) - i
       /\ Len(winners) = i
       /\ \A k \in 1..Len(given) :
            Cardinality({a \in 1..Len(winners \o Pool) :
                           (winners \o Pool)[a] = given[k]}) = 1
  /\ RoundDone =>
       /\ Len(Pool) = Len(last.pool) - 1
       /\ \A k \in 1..Len(Pool) :
            Pool[k] = IF k < last.idx THEN last.pool[k] ELSE last.pool[k + 1]
       /\ winners[Len(winners)] = last.pool[last.idx]

\* a round has removed a candidate from the middle of the pool
C7_Witness ==
  /\ RoundDone
  /\ last.idx > 1
  /\ last.idx < Len(last.pool)
  /\ Len(Pool) > 1

\* ---- checked under SpecUI

\* C8: the winner shown in phase 'revealing' is the element at
\* currentWinnerIndex of the pre-calculated winner list of the sequence.
C8_RevealShowsPrecalculated ==
  phase = "revealing" => currentWinner = At(selectedWinners, currentWinnerIndex)

\* C9: the phase is 'waiting' only after a winner that is not the last of
\* the pre-calculated list; after the last one it becomes 'complete'.
C9_WaitingOnlyBeforeLast ==
  phase = "waiting" => currentWinnerIndex < Len(selectedWinners) - 1

\* C10: at most one countdown (its interval, or the reveal or complete
\* timeout that follows it) is pending at any time.
C10_OneCountdownPending == Len(timers) <= 1
====
